---- MODULE Spec2Model ----
(***************************************************************************)
(* foldercat.py: traverse_folder walks one or more directory trees and     *)
(* concatenates the decoded content of the files that pass the include /   *)
(* exclude filters into one output file, each optionally preceded by a     *)
(* header line naming the file's path relative to its root.                *)
(*                                                                         *)
(* Text is a sequence of Unicode code points, file content a sequence of   *)
(* bytes, a path a text with "/" (47) between its components.              *)
(***************************************************************************)
EXTENDS Integers, Sequences, FiniteSets, TLC

VARIABLES
    fs,             \* the file system: file path -> its bytes on disk
    unreadable,     \* the file paths whose open(..., 'rb') raises an IOError
    unwritable,     \* the files and directories without write permission
    encoding,       \* the locale encoding open(output_path, "w") picks up
    buffering,      \* the size of f's buffer: the block size of its device
    folder_path,    \* the folder_path argument: [kind, value]
    no_header,      \* the no_header argument
    includes,       \* the includes argument: a sequence of patterns
    excludes,       \* the excludes argument: a sequence of patterns
    verbose,        \* the verbose argument
    output_path,    \* the output_path argument
    pc,             \* the position in traverse_folder
    rootList,       \* folder_path as line 49 iterates it
    rootIdx,        \* the number of roots the loop has taken so far
    fol_path,       \* the loop variable of line 49
    walkStack,      \* os.walk: the directories still to list, next one first
    root,           \* os.walk: the directory whose files are being handled
    files,          \* os.walk: the files of root still to handle
    file_path,      \* line 53
    relative_path,  \* line 54
    out,            \* the text written to f so far
    outState,       \* the output file: "none", "open" or "closed"
    pending,        \* the bytes f's text layer holds back
    buffer,         \* the bytes f's buffer holds back
    outDisk,        \* the bytes of the output file on disk
    stdout,         \* the text printed on standard output
    stderr,         \* the file paths reported on standard error
    log             \* history: what the run did, in order

vars == <<fs, unreadable, unwritable, encoding, buffering, folder_path,
          no_header, includes, excludes, verbose, output_path, pc, rootList,
          rootIdx, fol_path, walkStack, root, files, file_path, relative_path,
          out, outState, pending, buffer, outDisk, stdout, stderr, log>>

(***************************************************************************)
(* Bounds and the characters the program names.                            *)
(***************************************************************************)
MaxRoots == 2       \* the longest list of folders passed as folder_path
MaxPatterns == 2    \* the longest includes / excludes list

Slash == 47         \* os.sep
Newline == 10       \* "\n"
Replacement == 65533 \* U+FFFD, what errors='replace' substitutes
ChunkSize == 8192   \* the bytes f's text layer gathers before it passes them on

\* "---- File Name: \""
HeaderPrefix ==
    <<45, 45, 45, 45, 32, 70, 105, 108, 101, 32, 78, 97, 109, 101, 58, 32, 34>>
\* "\" ----\n"
HeaderSuffix == <<34, 32, 45, 45, 45, 45, 10>>
\* ": not included." and the newline print adds
NotIncludedMsg ==
    <<58, 32, 110, 111, 116, 32, 105, 110, 99, 108, 117, 100, 101, 100, 46, 10>>
\* ": excluded." and the newline print adds
ExcludedMsg == <<58, 32, 101, 120, 99, 108, 117, 100, 101, 100, 46, 10>>

(***************************************************************************)
(* Sequences.                                                              *)
(***************************************************************************)
Range(s) == {s[i] : i \in DOMAIN s}

\* The orders in which a directory listing can enumerate the set S: os.walk
\* keeps the order os.scandir gives, which the platform does not fix.
Orders(S) ==
    {s \in [1..Cardinality(S) -> S] : \A i, j \in DOMAIN s : s[i] = s[j] => i = j}

Last(s) == s[Len(s)]

IsPrefix(p, s) == Len(p) <= Len(s) /\ SubSeq(s, 1, Len(p)) = p

(***************************************************************************)
(* Paths: os.path.join, os.path.relpath.                                   *)
(***************************************************************************)
\* os.path.join(a, b) for a relative b.
PathJoin(a, b) ==
    IF a = <<>> \/ a[Len(a)] = Slash THEN a \o b ELSE a \o <<Slash>> \o b

Dot == <<46>>       \* os.curdir
DotDot == <<46, 46>> \* os.pardir

\* The components of a path relative to the working directory, as written:
\* what stands between the separators, "." and ".." among them.
RECURSIVE SplitFrom(_, _, _)
SplitFrom(p, i, cur) ==
    LET keep == IF cur = <<>> THEN <<>> ELSE <<cur>>
    IN  IF i > Len(p) THEN keep
        ELSE IF p[i] = Slash THEN keep \o SplitFrom(p, i + 1, <<>>)
        ELSE SplitFrom(p, i + 1, Append(cur, p[i]))

Components(p) == SplitFrom(p, 1, <<>>)

\* The components as normpath and abspath leave them: no "." component, and
\* a ".." taken away together with the component before it; a ".." that
\* leads out of the working directory stays.
RECURSIVE Collapse(_, _)
Collapse(done, cs) ==
    IF cs = <<>> THEN done
    ELSE IF Head(cs) = Dot THEN Collapse(done, Tail(cs))
    ELSE IF Head(cs) = DotDot /\ done # <<>> /\ Last(done) # DotDot
        THEN Collapse(SubSeq(done, 1, Len(done) - 1), Tail(cs))
    ELSE Collapse(Append(done, Head(cs)), Tail(cs))

Split(p) == Collapse(<<>>, Components(p))

RECURSIVE JoinComponents(_)
JoinComponents(cs) ==
    IF cs = <<>> THEN <<>>
    ELSE IF Len(cs) = 1 THEN cs[1]
    ELSE cs[1] \o <<Slash>> \o JoinComponents(Tail(cs))

RECURSIVE CommonLen(_, _)
CommonLen(a, b) ==
    IF a = <<>> \/ b = <<>> \/ Head(a) # Head(b) THEN 0
    ELSE 1 + CommonLen(Tail(a), Tail(b))

\* The path relative to the working directory, whatever the start.
RelPathToCwd(path, start) == JoinComponents(Split(path))

\* os.path.relpath(path, start), both relative to the same working directory.
RelPath(path, start) ==
    LET pl == Split(path)
        sl == Split(start)
        i == CommonLen(sl, pl)
        ups == [k \in 1..(Len(sl) - i) |-> <<46, 46>>]
        rel == ups \o SubSeq(pl, i + 1, Len(pl))
    IN  IF rel = <<>> THEN <<46>> ELSE JoinComponents(rel)

(***************************************************************************)
(* re.search, for patterns made of literal characters, ".", "^" and "$";   *)
(* a pattern holding "(" (never closed here) does not compile.             *)
(***************************************************************************)
ReCompiles(pat) == 40 \notin Range(pat)

RECURSIVE MatchAt(_, _, _, _)
MatchAt(pat, s, i, k) ==
    IF k > Len(pat) THEN TRUE
    ELSE IF pat[k] = 94 THEN i = 1 /\ MatchAt(pat, s, i, k + 1)
    ELSE IF pat[k] = 36
        THEN /\ \/ i = Len(s) + 1
                \/ i = Len(s) /\ s[i] = Newline
             /\ MatchAt(pat, s, i, k + 1)
    ELSE IF pat[k] = 46
        THEN i <= Len(s) /\ s[i] # Newline /\ MatchAt(pat, s, i + 1, k + 1)
    ELSE i <= Len(s) /\ s[i] = pat[k] /\ MatchAt(pat, s, i + 1, k + 1)

\* re.search(pat, s) is not None, for a pattern that compiles.
ReSearch(pat, s) == \E i \in 1..(Len(s) + 1) : MatchAt(pat, s, i, 1)

(***************************************************************************)
(* bytes.decode('utf-8', errors) and the encoding f.write applies.         *)
(***************************************************************************)
\* The continuation bytes a lead byte asks for; -1 for a byte that cannot
\* start a sequence.
Utf8Need(b) ==
    IF b < 128 THEN 0
    ELSE IF b >= 194 /\ b <= 223 THEN 1
    ELSE IF b >= 224 /\ b <= 239 THEN 2
    ELSE IF b >= 240 /\ b <= 244 THEN 3
    ELSE -1

\* Whether c may be the k-th continuation byte after lead byte b.
Utf8ContOk(b, k, c) ==
    LET lo == IF k = 1 /\ b = 224 THEN 160 ELSE IF k = 1 /\ b = 240 THEN 144 ELSE 128
        hi == IF k = 1 /\ b = 237 THEN 159 ELSE IF k = 1 /\ b = 244 THEN 143 ELSE 191
    IN  c >= lo /\ c <= hi

\* How many of the n continuation bytes wanted after position i are there.
RECURSIVE Utf8Have(_, _, _, _)
Utf8Have(bytes, i, n, k) ==
    IF k > n \/ i + k > Len(bytes) \/ ~Utf8ContOk(bytes[i], k, bytes[i + k])
    THEN k - 1
    ELSE Utf8Have(bytes, i, n, k + 1)

Utf8CodePoint(bytes, i, n) ==
    IF n = 1 THEN (bytes[i] - 192) * 64 + (bytes[i + 1] - 128)
    ELSE IF n = 2
        THEN (bytes[i] - 224) * 4096 + (bytes[i + 1] - 128) * 64 + (bytes[i + 2] - 128)
    ELSE (bytes[i] - 240) * 262144 + (bytes[i + 1] - 128) * 4096
         + (bytes[i + 2] - 128) * 64 + (bytes[i + 3] - 128)

\* Whether the byte at i is taken as a continuation byte by the lead byte
\* that starts one to three places before it.  A lead byte is never itself a
\* continuation byte, so it always starts a sequence.
Utf8Consumed(bytes, i) ==
    \E k \in 1..3 :
        /\ i - k >= 1
        /\ Utf8Need(bytes[i - k]) >= k
        /\ Utf8Have(bytes, i - k, Utf8Need(bytes[i - k]), 1) >= k

\* Whether an invalid part starts at i: a byte that cannot start a sequence,
\* or a lead byte without all its continuation bytes.
Utf8InvalidAt(bytes, i) ==
    /\ ~Utf8Consumed(bytes, i)
    /\ \/ Utf8Need(bytes[i]) = -1
       \/ Utf8Need(bytes[i]) > 0
          /\ Utf8Have(bytes, i, Utf8Need(bytes[i]), 1) < Utf8Need(bytes[i])

\* What the byte at i gives the decoded text: the code point of the sequence
\* it starts, one U+FFFD for the maximal invalid part it starts, nothing when
\* it continues a sequence.
Utf8Unit(bytes, i) ==
    LET n == Utf8Need(bytes[i])
    IN  IF Utf8Consumed(bytes, i) THEN <<>>
        ELSE IF n = 0 THEN <<bytes[i]>>
        ELSE IF Utf8InvalidAt(bytes, i) THEN <<Replacement>>
        ELSE <<Utf8CodePoint(bytes, i, n)>>

\* bytes.decode('utf-8', errors='replace') of the bytes lo..hi, in the
\* context of the whole.  Halving keeps the evaluation shallow.
RECURSIVE DecodeReplace(_, _, _)
DecodeReplace(bytes, lo, hi) ==
    IF lo > hi THEN <<>>
    ELSE IF lo = hi THEN Utf8Unit(bytes, lo)
    ELSE LET mid == (lo + hi) \div 2
         IN  DecodeReplace(bytes, lo, mid) \o DecodeReplace(bytes, mid + 1, hi)

\* Whether bytes.decode('utf-8') raises UnicodeDecodeError.
Utf8Invalid(bytes) == \E i \in DOMAIN bytes : Utf8InvalidAt(bytes, i)

\* bytes.decode('utf-8', errors): whether it raises UnicodeDecodeError, and the
\* text it returns otherwise.
DecodeUtf8(bytes, errors) ==
    IF errors = "strict" /\ Utf8Invalid(bytes)
    THEN [raised |-> TRUE, text |-> <<>>]
    ELSE [raised |-> FALSE, text |-> DecodeReplace(bytes, 1, Len(bytes))]

\* Lines 79-84: strict decoding, and on UnicodeDecodeError the lossy one.
DecodeContent(bytes) ==
    LET strict == DecodeUtf8(bytes, "strict")
    IN  IF strict.raised THEN DecodeUtf8(bytes, "replace").text ELSE strict.text

\* Whether f.write(text) can encode text: open(output_path, "w") names no
\* encoding, so the file takes the locale's.
CanEncode(text, enc) ==
    IF enc = "utf-8" THEN \A i \in DOMAIN text : text[i] < 55296 \/ text[i] > 57343
    ELSE \A i \in DOMAIN text : text[i] < 128

\* The UTF-8 bytes of one code point.
EncodeChar(c) ==
    IF c < 128 THEN <<c>>
    ELSE IF c < 2048 THEN <<192 + (c \div 64), 128 + (c % 64)>>
    ELSE IF c < 65536
        THEN <<224 + (c \div 4096), 128 + ((c \div 64) % 64), 128 + (c % 64)>>
    ELSE <<240 + (c \div 262144), 128 + ((c \div 4096) % 64),
           128 + ((c \div 64) % 64), 128 + (c % 64)>>

\* The bytes the text reaches the disk as (an encoding other than UTF-8
\* takes ASCII text only, which it encodes the same way).  Halving keeps the
\* evaluation shallow on a long text.
RECURSIVE EncodeText(_)
EncodeText(text) ==
    IF text = <<>> THEN <<>>
    ELSE IF Len(text) = 1 THEN EncodeChar(text[1])
    ELSE LET h == Len(text) \div 2
         IN  EncodeText(SubSeq(text, 1, h)) \o EncodeText(SubSeq(text, h + 1, Len(text)))

(***************************************************************************)
(* The file system below the working directory.  A directory exists when a *)
(* file lies below it; the working directory and the directories above it  *)
(* exist, and nothing else is known above the working directory.           *)
(***************************************************************************)
\* A path as the file system knows it: os.path.normpath.
Norm(p) == JoinComponents(Split(p))

\* The regular files there are: the tree's, and the output file once
\* open(output_path, "w") has created it.
FilesNow ==
    DOMAIN fs \cup (IF outState = "none" THEN {} ELSE {Norm(output_path)})

IsDirOf(d, f) == LET dl == Split(d) IN Len(dl) < Len(Split(f)) /\ IsPrefix(dl, Split(f))

DirExists(d) ==
    \/ \A i \in DOMAIN Split(d) : Split(d)[i] = DotDot
    \/ \E f \in DOMAIN fs : IsDirOf(d, f)

\* Whether the system can follow the components cs from the directory at: a
\* component that names no directory stops it, also when a ".." comes next.
RECURSIVE ResolvesFrom(_, _)
ResolvesFrom(at, cs) ==
    IF cs = <<>> THEN TRUE
    ELSE LET to == Collapse(at, <<Head(cs)>>)
         IN  DirExists(JoinComponents(to)) /\ ResolvesFrom(to, Tail(cs))

\* Whether d names a directory the system can reach; the empty path names
\* nothing.
IsDir(d) == d # <<>> /\ ResolvesFrom(<<>>, Components(d))

\* os.scandir(d): the names of the regular files of d, and of its directories.
FileNames(d) ==
    IF ~IsDir(d) THEN {}
    ELSE {Last(Split(f)) :
             f \in {g \in FilesNow : Split(g) = Append(Split(d), Last(Split(g)))}}

\* A listing that reports no directory: the walk stays at the top level.
DirNamesNone(d) == {}

DirNames(d) ==
    IF ~IsDir(d) THEN {}
    ELSE {Split(f)[Len(Split(d)) + 1] :
             f \in {g \in DOMAIN fs : IsDirOf(d, g) /\ Len(Split(g)) > Len(Split(d)) + 1}}

\* What open(p, 'rb').read() returns: the bytes on disk.  Of the output file
\* these are the bytes f has passed on so far, not the ones it holds back.
FileBytes(p) == IF Norm(p) = Norm(output_path) /\ outState # "none" THEN outDisk ELSE fs[Norm(p)]

\* Line 46: the parts of Path(p), which drops the "." components and the
\* separators that part nothing; Path("") is the working directory.
PathParts(p) == SelectSeq(Components(p), LAMBDA c : c # Dot)

\* Line 48, whether open(Path(p), "w") succeeds: the path names something
\* below a directory, the system can follow it to that directory, what it
\* names is no directory, and the file, or for a new file its directory,
\* may be written.
CanCreate(p) ==
    LET cs == PathParts(p)
        dir == Collapse(<<>>, SubSeq(cs, 1, Len(cs) - 1))
    IN  /\ cs # <<>>
        /\ Last(cs) # DotDot
        /\ ResolvesFrom(<<>>, SubSeq(cs, 1, Len(cs) - 1))
        /\ ~DirExists(p)
        /\ IF Norm(p) \in DOMAIN fs THEN Norm(p) \notin unwritable
           ELSE JoinComponents(dir) \notin unwritable

(***************************************************************************)
(* f, the file open(output_path, "w") returns: a text layer over a buffer  *)
(* over the file.  Each holds bytes back; a read of the output file sees   *)
(* the bytes that have passed both.                                        *)
(***************************************************************************)
\* The buffer's write: data that fits is kept; data that does not sends the
\* buffer's bytes to the file, and follows them when it is larger than the
\* whole buffer.
BufferedWrite(f, data) ==
    IF Len(f.buffer) + Len(data) <= buffering
    THEN [f EXCEPT !.buffer = f.buffer \o data]
    ELSE IF Len(data) > buffering
        THEN [f EXCEPT !.buffer = <<>>, !.disk = f.disk \o f.buffer \o data]
    ELSE [f EXCEPT !.buffer = data, !.disk = f.disk \o f.buffer]

\* The text layer passes the bytes it holds to the buffer.
WriteFlush(f) == [BufferedWrite(f, f.pending) EXCEPT !.pending = <<>>]

\* The text layer's write of encoded text: the bytes join the pending ones,
\* which go first when the two together would exceed a chunk, and all go
\* once they amount to a chunk.
TextWrite(f, data) ==
    LET first == IF f.pending # <<>> /\ Len(f.pending) + Len(data) > ChunkSize
                 THEN WriteFlush(f) ELSE f
        held == [first EXCEPT !.pending = first.pending \o data]
    IN  IF Len(held.pending) >= ChunkSize THEN WriteFlush(held) ELSE held

(***************************************************************************)
(* Lines 43-44 and 49: what "for fol_path in folder_path" iterates.        *)
(***************************************************************************)
\* isinstance(folder_path, Sequence): a list is a Sequence, and so is a str;
\* a Path is not.
IsSequence(fp) == fp.kind \in {"list", "str"}

\* Iterating a list yields its items, iterating a str its characters.
Iterate(fp) ==
    IF fp.kind = "str" THEN [i \in 1..Len(fp.value) |-> <<fp.value[i]>>]
    ELSE fp.value

Normalise(fp) == IF ~IsSequence(fp) THEN <<fp.value>> ELSE Iterate(fp)

(***************************************************************************)
(* Lines 61 and 68: the filter.                                            *)
(***************************************************************************)
\* all(re.search(incl, path) is None for incl in includes), from the k-th
\* pattern on: all() stops at the first pattern that matches, and a pattern
\* that does not compile raises re.error when it is reached.
RECURSIVE AllNone(_, _, _)
AllNone(pats, path, k) ==
    IF k > Len(pats) THEN "true"
    ELSE IF ~ReCompiles(pats[k]) THEN "error"
    ELSE IF ReSearch(pats[k], path) THEN "false"
    ELSE AllNone(pats, path, k + 1)

\* any(re.search(excl, path) is not None for excl in excludes).
RECURSIVE AnyMatch(_, _, _)
AnyMatch(pats, path, k) ==
    IF k > Len(pats) THEN "false"
    ELSE IF ~ReCompiles(pats[k]) THEN "error"
    ELSE IF ReSearch(pats[k], path) THEN "true"
    ELSE AnyMatch(pats, path, k + 1)

\* The filter with the precedence turned round: a path that matches an
\* include pattern is accepted without a look at the exclude patterns.
FilterOutcomeIncludeWins(incs, excs, path) ==
    LET notIncluded == IF Len(incs) > 0 THEN AllNone(incs, path, 1) ELSE "false"
        excluded == IF Len(incs) > 0 THEN "false" ELSE AnyMatch(excs, path, 1)
    IN  IF notIncluded = "error" THEN "error"
        ELSE IF notIncluded = "true" THEN "not_included"
        ELSE IF excluded = "error" THEN "error"
        ELSE IF excluded = "true" THEN "excluded"
        ELSE "accepted"

\* Lines 61-71: "not_included", "excluded", "accepted", or "error" when
\* re.error is raised.
FilterOutcome(incs, excs, path) ==
    LET notIncluded == IF Len(incs) > 0 THEN AllNone(incs, path, 1) ELSE "false"
        excluded == AnyMatch(excs, path, 1)
    IN  IF notIncluded = "error" THEN "error"
        ELSE IF notIncluded = "true" THEN "not_included"
        ELSE IF excluded = "error" THEN "error"
        ELSE IF excluded = "true" THEN "excluded"
        ELSE "accepted"

\* Line 74: the header line.
HeaderLine(rel) == HeaderPrefix \o rel \o HeaderSuffix

(***************************************************************************)
(* The run.                                                                *)
(***************************************************************************)
\* The number of files discovered so far.
Discovered == Cardinality({k \in DOMAIN log : log[k].ev = "discovered"})

\* An entry of the history: what happened, in the walk of which root, to
\* which discovered file, and for a read the bytes it returned.
Event(ev, path, rel) ==
    [ev |-> ev, root |-> rootIdx, visit |-> Discovered, path |-> path,
     rel |-> rel, data |-> <<>>]

\* f.write(text), for a text the encoding takes.
Write(text) ==
    LET f == TextWrite([pending |-> pending, buffer |-> buffer, disk |-> outDisk],
                       EncodeText(text))
    IN  /\ out' = out \o text
        /\ pending' = f.pending
        /\ buffer' = f.buffer
        /\ outDisk' = f.disk

\* Leaving the with block of line 48, normally or by an exception: f is
\* flushed and closed, the bytes it held back reach the file.
CloseOutput ==
    /\ outState' = "closed"
    /\ outDisk' = outDisk \o buffer \o pending
    /\ pending' = <<>>
    /\ buffer' = <<>>

\* An exception nothing catches: it leaves the with block and ends the run.
Crash ==
    /\ pc' = "crashed"
    /\ CloseOutput
    /\ log' = Append(log, Event("crash", file_path, relative_path))

\* Lines 43-48: normalise folder_path, create or truncate the output file.
Open ==
    /\ pc = "start"
    /\ rootList' = Normalise(folder_path)
    /\ IF CanCreate(output_path)
       THEN /\ pc' = "roots"
            /\ outState' = "open"
            /\ outDisk' = <<>>
            /\ log' = Append(log, Event("open_w", output_path, <<>>))
       ELSE /\ pc' = "crashed"
            /\ UNCHANGED <<outState, outDisk>>
            /\ log' = Append(log, Event("crash", output_path, <<>>))
    /\ UNCHANGED <<fs, unreadable, unwritable, encoding, buffering, folder_path, no_header,
                   includes, excludes, verbose, output_path, rootIdx, fol_path,
                   walkStack, root, files, file_path, relative_path, out,
                   pending, buffer, stdout, stderr>>

\* Line 49: the next folder, or the end of the with block.
NextRoot ==
    /\ pc = "roots"
    /\ IF rootIdx < Len(rootList)
       THEN /\ rootIdx' = rootIdx + 1
            /\ fol_path' = rootList[rootIdx + 1]
            /\ walkStack' = <<rootList[rootIdx + 1]>>
            /\ pc' = "walk"
            /\ log' = Append(log, [Event("root", rootList[rootIdx + 1], <<>>)
                                    EXCEPT !.root = rootIdx + 1])
            /\ UNCHANGED <<outState, pending, buffer, outDisk>>
       ELSE /\ pc' = "done"
            /\ CloseOutput
            /\ log' = Append(log, Event("close_w", output_path, <<>>))
            /\ UNCHANGED <<rootIdx, fol_path, walkStack>>
    /\ UNCHANGED <<fs, unreadable, unwritable, encoding, buffering, folder_path, no_header,
                   includes, excludes, verbose, output_path, rootList, root, files,
                   file_path, relative_path, out, stdout, stderr>>

\* Line 50: os.walk yields the next directory, top-down, with its files in
\* the order the platform lists them.  For a folder that is no directory it
\* yields nothing: the loop body is not entered, root and files keep what
\* they held.
WalkDir ==
    /\ pc = "walk"
    /\ IF walkStack = <<>>
       THEN /\ pc' = "roots"
            /\ UNCHANGED <<walkStack, root, files>>
       ELSE IF ~IsDir(Head(walkStack))
       THEN /\ walkStack' = Tail(walkStack)
            /\ UNCHANGED <<pc, root, files>>
       ELSE LET d == Head(walkStack)
            IN  \E fo \in Orders(FileNames(d)), do \in Orders(DirNames(d)) :
                    /\ root' = d
                    /\ files' = fo
                    /\ walkStack' = [i \in 1..Len(do) |-> PathJoin(d, do[i])]
                                    \o Tail(walkStack)
                    /\ pc' = "files"
    /\ UNCHANGED <<fs, unreadable, unwritable, encoding, buffering, folder_path, no_header,
                   includes, excludes, verbose, output_path, rootList, rootIdx,
                   fol_path, file_path, relative_path, out, outState, pending,
                   buffer, outDisk, stdout, stderr, log>>

\* Lines 51-57: the next file of the directory, its path and relative path.
NextFile ==
    /\ pc = "files"
    /\ IF files = <<>>
       THEN /\ pc' = "walk"
            /\ UNCHANGED <<files, file_path, relative_path, stdout, log>>
       ELSE LET fp == PathJoin(root, Head(files))
                rel == RelPath(fp, fol_path)
            IN  /\ file_path' = fp
                /\ relative_path' = rel
                /\ files' = Tail(files)
                /\ stdout' = IF verbose THEN stdout \o rel ELSE stdout
                /\ log' = Append(log, [Event("discovered", fp, rel)
                                        EXCEPT !.visit = Discovered + 1])
                /\ pc' = "filter"
    /\ UNCHANGED <<fs, unreadable, unwritable, encoding, buffering, folder_path, no_header,
                   includes, excludes, verbose, output_path, rootList, rootIdx,
                   fol_path, walkStack, root, out, outState, pending, buffer,
                   outDisk, stderr>>

\* Lines 59-71: the include and exclude filters.
Filter ==
    /\ pc = "filter"
    /\ LET outcome == FilterOutcome(includes, excludes, relative_path)
       IN  IF outcome = "error"
           THEN Crash /\ UNCHANGED stdout
           ELSE /\ pc' = IF outcome = "accepted" THEN "header" ELSE "files"
                /\ stdout' = IF ~verbose \/ outcome = "accepted" THEN stdout
                             ELSE IF outcome = "not_included"
                                 THEN stdout \o NotIncludedMsg
                             ELSE stdout \o ExcludedMsg
                /\ log' = Append(log, Event(outcome, file_path, relative_path))
                /\ UNCHANGED <<outState, pending, buffer, outDisk>>
    /\ UNCHANGED <<fs, unreadable, unwritable, encoding, buffering, folder_path, no_header,
                   includes, excludes, verbose, output_path, rootList, rootIdx,
                   fol_path, walkStack, root, files, file_path, relative_path,
                   out, stderr>>

\* The header written whatever no_header says.
WriteHeaderAlways ==
    /\ pc = "header"
    /\ pc' = "read"
    /\ Write(HeaderLine(relative_path))
    /\ log' = Append(log, Event("header", file_path, relative_path))
    /\ UNCHANGED <<fs, unreadable, unwritable, encoding, buffering, folder_path, no_header,
                   includes, excludes, verbose, output_path, rootList, rootIdx,
                   fol_path, walkStack, root, files, file_path, relative_path,
                   outState, stdout, stderr>>

\* Lines 73-74: the header, written before the file is read.  The write is
\* outside the try block: a header the encoding cannot take ends the run.
WriteHeader ==
    /\ pc = "header"
    /\ IF no_header
       THEN /\ pc' = "read"
            /\ UNCHANGED <<out, outState, pending, buffer, outDisk, log>>
       ELSE IF CanEncode(HeaderLine(relative_path), encoding)
       THEN /\ pc' = "read"
            /\ Write(HeaderLine(relative_path))
            /\ log' = Append(log, Event("header", file_path, relative_path))
            /\ UNCHANGED outState
       ELSE Crash /\ UNCHANGED out
    /\ UNCHANGED <<fs, unreadable, unwritable, encoding, buffering, folder_path, no_header,
                   includes, excludes, verbose, output_path, rootList, rootIdx,
                   fol_path, walkStack, root, files, file_path, relative_path,
                   stdout, stderr>>

\* The read without the try block: a file that cannot be read ends the run.
ReadFileFatal ==
    /\ pc = "read"
    /\ IF Norm(file_path) \in unreadable
       THEN Crash /\ UNCHANGED <<out, stdout, stderr>>
       ELSE /\ pc' = "files"
            /\ Write(DecodeContent(FileBytes(file_path)) \o <<Newline>>)
            /\ stdout' = IF verbose THEN Append(stdout, Newline) ELSE stdout
            /\ log' = log \o <<[Event("open_r", file_path, relative_path)
                                 EXCEPT !.data = FileBytes(file_path)],
                               [Event("content", file_path, relative_path)
                                 EXCEPT !.data = FileBytes(file_path)]>>
            /\ UNCHANGED <<stderr, outState>>
    /\ UNCHANGED <<fs, unreadable, unwritable, encoding, buffering, folder_path, no_header,
                   includes, excludes, verbose, output_path, rootList, rootIdx,
                   fol_path, walkStack, root, files, file_path, relative_path>>

\* Lines 76-90: read, decode and write the content.  An IOError of open or
\* read, and the UnicodeEncodeError of a write the encoding cannot take, are
\* caught and reported; either way the loop goes on.
ReadFile ==
    /\ pc = "read"
    /\ pc' = "files"
    /\ IF Norm(file_path) \in unreadable
       THEN /\ stderr' = Append(stderr, file_path)
            /\ log' = Append(log, Event("error", file_path, relative_path))
            /\ UNCHANGED <<out, pending, buffer, outDisk, stdout>>
       ELSE LET content == FileBytes(file_path)
                text == DecodeContent(content) \o <<Newline>>
                read == [Event("open_r", file_path, relative_path)
                          EXCEPT !.data = content]
            IN  IF CanEncode(text, encoding)
                THEN /\ Write(text)
                     /\ stdout' = IF verbose THEN Append(stdout, Newline) ELSE stdout
                     /\ log' = log \o <<read, [read EXCEPT !.ev = "content"]>>
                     /\ UNCHANGED stderr
                ELSE /\ stderr' = Append(stderr, file_path)
                     /\ log' = log \o <<read, [read EXCEPT !.ev = "error"]>>
                     /\ UNCHANGED <<out, pending, buffer, outDisk, stdout>>
    /\ UNCHANGED <<fs, unreadable, unwritable, encoding, buffering, folder_path, no_header,
                   includes, excludes, verbose, output_path, rootList, rootIdx,
                   fol_path, walkStack, root, files, file_path, relative_path,
                   outState>>

Next ==
    \/ Open
    \/ NextRoot
    \/ WalkDir
    \/ NextFile
    \/ Filter
    \/ WriteHeader
    \/ ReadFile

(***************************************************************************)
(* The inputs of a run: the tree, the arguments, the environment.          *)
(***************************************************************************)
\* The files a tree may hold, with their bytes:
\*   A/n    FF C3 A9 68 C3: not valid UTF-8
\*   A/x/y  "hi"
\*   B/x/y  "ho"
\*   B/h    ---- File Name: "q" ----   (a line shaped like a header)
\*   AB/a   C3 A9: "e" with an acute accent, valid UTF-8
FullTree ==
    (<<65, 47, 110>> :> <<255, 195, 169, 104, 195>>)
    @@ (<<65, 47, 120, 47, 121>> :> <<104, 105>>)
    @@ (<<66, 47, 120, 47, 121>> :> <<104, 111>>)
    @@ (<<66, 47, 104>> :> <<45, 45, 45, 45, 32, 70, 105, 108, 101, 32, 78, 97,
                             109, 101, 58, 32, 34, 113, 34, 32, 45, 45, 45, 45>>)
    @@ (<<65, 66, 47, 97>> :> <<195, 169>>)

TreeOf(paths) == [f \in paths |-> FullTree[f]]

\* The folders a caller names: A, B, AB and A/x.
RootUniverse == {<<65>>, <<66>>, <<65, 66>>, <<65, 47, 120>>}

\* The patterns a caller gives: y, ^y, n and the malformed "(".
PatternUniverse == {<<121>>, <<94, 121>>, <<110>>, <<40>>}

\* The names among S without a "/": the characters of a str that holds one
\* include "/", the root of the file system, which lies outside the tree.
SlashFree(S) == {r \in S : Slash \notin Range(r)}

ListsUpTo(S, n) == UNION {[1..k -> S] : k \in 0..n}

\* folder_path as a list of folders, as one str and as one Path.
AsList(items) == [kind |-> "list", value |-> items]
AsStr(path) == [kind |-> "str", value |-> path]
AsPath(path) == [kind |-> "path", value |-> path]

\* The initial states: the inputs drawn from the sets in, the run not begun.
InitWith(in) ==
    /\ fs \in in.trees
    /\ unreadable \in in.unreadables
    /\ unwritable \in in.unwritables
    /\ encoding \in in.encodings
    /\ buffering \in in.bufferings
    /\ folder_path \in in.folder_paths
    /\ no_header \in in.no_headers
    /\ includes \in in.include_lists
    /\ excludes \in in.exclude_lists
    /\ verbose \in in.verboses
    /\ output_path \in in.output_paths
    /\ pc = "start"
    /\ rootList = <<>>
    /\ rootIdx = 0
    /\ fol_path = <<>>
    /\ walkStack = <<>>
    /\ root = <<>>
    /\ files = <<>>
    /\ file_path = <<>>
    /\ relative_path = <<>>
    /\ out = <<>>
    /\ outState = "none"
    /\ pending = <<>>
    /\ buffer = <<>>
    /\ outDisk = <<>>
    /\ stdout = <<>>
    /\ stderr = <<>>
    /\ log = <<>>

\* Runs over the trees A and B with every kind of failure: unreadable files,
\* an encoding that is not UTF-8, an output file inside a folder, an output
\* path that names a directory, one whose directory is missing, a folder
\* that takes no new file, a malformed pattern.
Init ==
    InitWith([trees |-> {FullTree, TreeOf({})},
              unreadables |-> {{}, {<<65, 47, 120, 47, 121>>},
                               {<<65, 47, 110>>, <<66, 47, 104>>}},
              unwritables |-> {{}, {<<65>>}},
              encodings |-> {"utf-8", "ascii"},
              bufferings |-> {4096, 8192},
              folder_paths |-> {AsList(<<<<65>>, <<66>>>>), AsList(<<<<65>>>>)},
              no_headers |-> BOOLEAN,
              include_lists |-> {<<>>, <<<<121>>>>, <<<<40>>>>},
              exclude_lists |-> {<<>>, <<<<94, 121>>>>, <<<<110>>, <<40>>>>},
              verboses |-> BOOLEAN,
              output_paths |-> {<<111>>, <<65, 47, 111>>, <<78, 47, 111>>, <<65>>}])

Spec == Init /\ [][Next]_vars

\* Runs over the folders A and A/x with every pair of pattern lists.
InitFilter ==
    InitWith([trees |-> {FullTree},
              unreadables |-> {{}},
              unwritables |-> {{}},
              encodings |-> {"utf-8"},
              bufferings |-> {8192},
              folder_paths |-> {AsList(<<<<65>>, <<65, 47, 120>>>>)},
              no_headers |-> BOOLEAN,
              include_lists |-> ListsUpTo(PatternUniverse, MaxPatterns),
              exclude_lists |-> ListsUpTo(PatternUniverse, MaxPatterns),
              verboses |-> {FALSE},
              output_paths |-> {<<111>>}])

SpecFilter == InitFilter /\ [][Next]_vars

\* Runs with no filter over every tree and every way of naming the folders.
InitRoots ==
    InitWith([trees |-> {TreeOf(paths) : paths \in SUBSET DOMAIN FullTree},
              unreadables |-> {{}, {<<65, 47, 120, 47, 121>>}},
              unwritables |-> {{}},
              encodings |-> {"utf-8"},
              bufferings |-> {8192},
              folder_paths |->
                  {AsList(items) : items \in ListsUpTo(RootUniverse, MaxRoots)}
                  \cup {AsStr(r) : r \in SlashFree(RootUniverse)}
                  \cup {AsPath(r) : r \in RootUniverse},
              no_headers |-> BOOLEAN,
              include_lists |-> {<<>>},
              exclude_lists |-> {<<>>},
              verboses |-> {FALSE},
              output_paths |-> {<<111>>}])

SpecRoots == InitRoots /\ [][Next]_vars

(***************************************************************************)
(* What the claims speak of.                                               *)
(***************************************************************************)
\* The texts of a sequence, one after the other.
RECURSIVE Concat(_)
Concat(ss) == IF ss = <<>> THEN <<>> ELSE Head(ss) \o Concat(Tail(ss))

\* The files the run has discovered so far, in order.
Visits == SelectSeq(log, LAMBDA e : e.ev = "discovered")

EventsOf(evs) == SelectSeq(log, LAMBDA e : e.ev \in evs)

\* The run is between two files: every discovered file has been dealt with.
BetweenFiles == pc \in {"roots", "walk", "files", "done"}

\* A pattern search-matches a path.
Matches(pat, path) == ReCompiles(pat) /\ ReSearch(pat, path)

\* The filter as the specification words it.
ShouldEmit(path) ==
    /\ includes = <<>> \/ \E i \in DOMAIN includes : Matches(includes[i], path)
    /\ ~\E j \in DOMAIN excludes : Matches(excludes[j], path)

\* The bytes the read of a discovered file gives: those the tree holds for
\* it; for the output file, which the run itself changes, those its read
\* returned.
BytesRead(e) ==
    IF Norm(e.path) # Norm(output_path) THEN fs[Norm(e.path)]
    ELSE LET reads == {k \in DOMAIN log : log[k].ev = "open_r" /\ log[k].visit = e.visit}
         IN  IF reads = {} THEN <<>> ELSE log[CHOOSE k \in reads : TRUE].data

\* The text a discovered file should add to the output: its content,
\* decoded, with the newline the program adds.
ExpectedText(e) == DecodeContent(BytesRead(e)) \o <<Newline>>

ExpectedHeader(rel) == IF no_header THEN <<>> ELSE HeaderLine(rel)

ContentFails(e) ==
    Norm(e.path) \in unreadable \/ ~CanEncode(ExpectedText(e), encoding)

\* The block a discovered file should leave in the output, by itself.
ExpectedBlock(e) ==
    IF ~ShouldEmit(e.rel) THEN <<>>
    ELSE ExpectedHeader(e.rel)
         \o (IF ContentFails(e) THEN <<>> ELSE ExpectedText(e))

\* The regular files below a folder.
FilesUnder(d) == {f \in FilesNow : IsDirOf(d, f)}

\* A line shaped like a header: ---- File Name: "..." ----
IsHeaderShaped(line) ==
    /\ Len(line) >= Len(HeaderPrefix) + 6
    /\ SubSeq(line, 1, Len(HeaderPrefix)) = HeaderPrefix
    /\ SubSeq(line, Len(line) - 5, Len(line)) = SubSeq(HeaderSuffix, 1, 6)

HasHeaderShapedLine(text) ==
    \E i \in 1..Len(text) :
        /\ i = 1 \/ text[i - 1] = Newline
        /\ \E j \in i..Len(text) :
            /\ j = Len(text) \/ text[j + 1] = Newline
            /\ \A m \in i..j : text[m] # Newline
            /\ IsHeaderShaped(SubSeq(text, i, j))

(***************************************************************************)
(* C1: a discovered file is emitted if and only if the includes list is    *)
(* empty or one of its patterns search-matches the file's relative path,   *)
(* and no exclude pattern search-matches it.  Every filter decision taken  *)
(* agrees with that, header and content are written for such files only,   *)
(* and the finished output of a run without read failures holds exactly    *)
(* the blocks of the files that satisfy it.                                *)
(***************************************************************************)
C1_FilterIff ==
    /\ \A k \in DOMAIN log :
        /\ log[k].ev \in {"accepted", "header", "content"} => ShouldEmit(log[k].rel)
        /\ log[k].ev \in {"not_included", "excluded"} => ~ShouldEmit(log[k].rel)
        /\ log[k].ev = "excluded" =>
               \E j \in DOMAIN excludes : Matches(excludes[j], log[k].rel)
        /\ log[k].ev = "not_included" =>
               /\ includes # <<>>
               /\ \A i \in DOMAIN includes : ~Matches(includes[i], log[k].rel)
    /\ (pc = "done" /\ stderr = <<>>) =>
           out = Concat([k \in DOMAIN Visits |->
                            IF ShouldEmit(Visits[k].rel)
                            THEN ExpectedHeader(Visits[k].rel)
                                 \o ExpectedText(Visits[k])
                            ELSE <<>>])

\* A finished run in which one file matched an include and an exclude pattern
\* and was left out, one matched no include pattern, and one was emitted.
C1_Witness ==
    /\ pc = "done"
    /\ includes # <<>>
    /\ excludes # <<>>
    /\ \E k \in DOMAIN log :
        /\ log[k].ev = "excluded"
        /\ \E i \in DOMAIN includes : Matches(includes[i], log[k].rel)
    /\ \E k \in DOMAIN log : log[k].ev = "not_included"
    /\ \E k \in DOMAIN log : log[k].ev = "content"

(***************************************************************************)
(* C2, as stated: with empty include and exclude lists and a list of roots,*)
(* after the run every regular file reachable from the roots has exactly   *)
(* one block in the output, never none and never two.                      *)
(***************************************************************************)
C2_ExactlyOnce ==
    (pc = "done" /\ folder_path.kind = "list" /\ includes = <<>> /\ excludes = <<>>) =>
        \A f \in UNION {FilesUnder(folder_path.value[i]) : i \in DOMAIN folder_path.value} :
            Cardinality({k \in DOMAIN log :
                            log[k].ev = "accepted" /\ Norm(log[k].path) = f}) = 1

\* The path of f below the folder d: what follows d and the separator.
BelowRoot(f, d) == SubSeq(f, Len(d) + 2, Len(f))

\* The root occurrence and the file of each event of a sequence.
VisitKeys(seq) == [k \in DOMAIN seq |-> <<seq[k].root, seq[k].path>>]

(***************************************************************************)
(* C2, amended: with empty include and exclude lists and a list of roots,  *)
(* after the run every regular file has been handled exactly once for each *)
(* occurrence of a root it is reachable from (roots are not deduplicated,  *)
(* so a root given twice or lying inside another gives its files again),   *)
(* nothing else has been handled, and the output is exactly the blocks of  *)
(* these handlings, one after the other in traversal order: roots in the   *)
(* order given, files in the order the walk yields them.  The block of a   *)
(* handling is the file's header (unless no_header) and then its decoded   *)
(* content and a newline; when the read or the write of the content fails  *)
(* the block is the header alone, and with no_header it is empty.          *)
(***************************************************************************)
C2_OncePerRootOccurrence ==
    (pc = "done" /\ folder_path.kind = "list" /\ includes = <<>> /\ excludes = <<>>) =>
        LET rs == folder_path.value
        IN  /\ \A i \in DOMAIN rs : \A f \in FilesUnder(rs[i]) :
                   Cardinality({k \in DOMAIN Visits :
                                   Visits[k].root = i /\ Norm(Visits[k].path) = f}) = 1
            /\ \A k \in DOMAIN Visits :
                   /\ Visits[k].root \in DOMAIN rs
                   /\ Norm(Visits[k].path) \in FilesUnder(rs[Visits[k].root])
            /\ \A k \in 1..(Len(Visits) - 1) : Visits[k].root <= Visits[k + 1].root
            /\ VisitKeys(EventsOf({"accepted"})) = VisitKeys(Visits)
            /\ VisitKeys(EventsOf({"header"})) =
                   IF no_header THEN <<>> ELSE VisitKeys(Visits)
            /\ VisitKeys(EventsOf({"content"})) =
                   VisitKeys(SelectSeq(Visits, LAMBDA e : ~ContentFails(e)))
            /\ out = Concat([k \in DOMAIN Visits |->
                                (IF no_header THEN <<>>
                                 ELSE HeaderLine(BelowRoot(Visits[k].path,
                                                           rs[Visits[k].root])))
                                \o (IF ContentFails(Visits[k]) THEN <<>>
                                    ELSE ExpectedText(Visits[k]))])
            /\ outDisk = EncodeText(out)

\* A finished run over a list that names one folder twice, or a folder and a
\* folder inside it, in which a file below a subdirectory got two blocks.
C2_Witness ==
    /\ pc = "done"
    /\ folder_path.kind = "list"
    /\ includes = <<>>
    /\ excludes = <<>>
    /\ \E j, k \in DOMAIN log :
        /\ j < k
        /\ log[j].ev = "content"
        /\ log[k].ev = "content"
        /\ log[j].path = log[k].path
        /\ Len(Split(log[j].rel)) > 1

(***************************************************************************)
(* C3, as stated: with no_header the finished output holds no line of the  *)
(* form ---- File Name: "..." ----, whatever the files hold.               *)
(***************************************************************************)
C3_NoHeaderShapedLine ==
    (pc = "done" /\ no_header) => ~HasHeaderShapedLine(out)

(***************************************************************************)
(* C3, amended: with no_header the run itself writes no header line: the   *)
(* output is exactly the decoded contents of the files whose content was   *)
(* written, each followed by one newline, so a line of the header's form   *)
(* is in the output only where a file's own content holds it.              *)
(***************************************************************************)
C3_NoHeaderWritten ==
    no_header =>
        /\ \A k \in DOMAIN log : log[k].ev # "header"
        /\ BetweenFiles =>
               out = Concat([k \in DOMAIN EventsOf({"content"}) |->
                                ExpectedText(EventsOf({"content"})[k])])

\* A finished run with no_header that wrote several contents, one of them
\* holding a line shaped like a header.
C3_Witness ==
    /\ pc = "done"
    /\ no_header
    /\ Len(EventsOf({"content"})) > 1
    /\ HasHeaderShapedLine(out)

(***************************************************************************)
(* C4: the relative path that is filtered and printed in the header is the *)
(* file's path below the root whose walk discovered it (joining that root  *)
(* and the relative path gives the file's path back), the blocks of a root *)
(* all come before the blocks of the roots after it, and the output is the *)
(* sequence of blocks headed by these own-root paths: for roots A and B    *)
(* that both hold x/y, two blocks headed x/y, A's first.                   *)
(***************************************************************************)
C4_RelativeToOwnRoot ==
    /\ \A k \in DOMAIN log :
        log[k].ev \in {"discovered", "accepted", "header", "content"} =>
            /\ log[k].root \in DOMAIN rootList
            /\ PathJoin(rootList[log[k].root], log[k].rel) = log[k].path
    /\ \A k \in 1..(Len(log) - 1) : log[k].root <= log[k + 1].root
    /\ (BetweenFiles /\ includes = <<>> /\ excludes = <<>>) =>
           out = Concat([k \in DOMAIN Visits |->
                            ExpectedHeader(BelowRoot(Visits[k].path,
                                                     rootList[Visits[k].root]))
                            \o (IF ContentFails(Visits[k]) THEN <<>>
                                ELSE ExpectedText(Visits[k]))])

\* A finished run over the roots A and B, in that order, whose output has a
\* header x/y from A's walk and, later, a header x/y from B's walk.
C4_Witness ==
    /\ pc = "done"
    /\ rootList = <<<<65>>, <<66>>>>
    /\ \E j, k \in DOMAIN log :
        /\ j < k
        /\ log[j].ev = "header" /\ log[j].root = 1
        /\ log[k].ev = "header" /\ log[k].root = 2
        /\ log[j].rel = <<120, 47, 121>>
        /\ log[k].rel = <<120, 47, 121>>
        /\ log[j].path # log[k].path

(***************************************************************************)
(* C5: when reading an accepted file fails with an I/O error, none of its  *)
(* content reaches the output (its header, when enabled, stays), its path  *)
(* is reported on stderr, and the run goes on: whenever the run is between *)
(* two files the output is the sequence of the blocks each discovered file *)
(* leaves by itself, whether or not files before it failed, stderr names   *)
(* exactly the accepted files whose content failed, in order, and the run  *)
(* never ends by an exception right after a read.                          *)
(***************************************************************************)
C5_ReadErrorIsLocal ==
    /\ BetweenFiles =>
        /\ out = Concat([k \in DOMAIN Visits |-> ExpectedBlock(Visits[k])])
        /\ stderr =
               LET failed == SelectSeq(Visits,
                                 LAMBDA e : ShouldEmit(e.rel) /\ ContentFails(e))
               IN  [k \in DOMAIN failed |-> failed[k].path]
    /\ \A k \in DOMAIN log :
        (log[k].ev = "error" /\ Norm(log[k].path) \in unreadable) =>
            /\ log[k - 1].ev \in {"accepted", "header"}
            /\ log[k - 1].ev = "header" <=> ~no_header
            /\ k < Len(log) => log[k + 1].ev \in {"discovered", "root", "close_w"}
    /\ pc = "crashed" =>
        /\ log[Len(log)].ev = "crash"
        /\ Len(log) > 1 => log[Len(log) - 1].ev = "discovered"

\* A finished run in which the read of an accepted file failed and a file
\* discovered after it had its content written.
C5_Witness ==
    /\ pc = "done"
    /\ \E j, k \in DOMAIN log :
        /\ j < k
        /\ log[j].ev = "error"
        /\ Norm(log[j].path) \in unreadable
        /\ log[k].ev = "content"
    /\ stderr # <<>>

(***************************************************************************)
(* C6: the output file is created before any content is written, stays     *)
(* open until the traversal of all roots has finished, and is never opened *)
(* for reading by the program.                                             *)
(***************************************************************************)
C6_OutputNeverRead ==
    /\ out # <<>> => outState # "none"
    /\ pc \in {"roots", "walk", "files", "filter", "header", "read"} => outState = "open"
    /\ \A k \in DOMAIN log :
        log[k].ev = "open_r" => Norm(log[k].path) # Norm(output_path)

(***************************************************************************)
(* C7: a call with folder_path given as one path, a str or a Path,         *)
(* traverses exactly that one folder, as the call with the one-element     *)
(* list of that path does.                                                 *)
(***************************************************************************)
C7_SinglePathIsOneFolder ==
    (pc = "done" /\ folder_path.kind \in {"str", "path"}) =>
        LET walked == EventsOf({"root"})
        IN  /\ \A k \in DOMAIN Visits :
                   Norm(Visits[k].path) \in FilesUnder(folder_path.value)
            /\ \A f \in FilesUnder(folder_path.value) :
                   \E k \in DOMAIN Visits : Norm(Visits[k].path) = f
            /\ walked # <<>>

(***************************************************************************)
(* C8: when a pattern of the include or exclude list is no valid regular   *)
(* expression the run fails at startup, before any file is visited or any  *)
(* content is written, whatever the tree holds; it never completes and     *)
(* never fails in the middle of the traversal.                             *)
(***************************************************************************)
C8_EagerValidation ==
    (\E p \in Range(includes) \cup Range(excludes) : ~ReCompiles(p)) =>
        /\ Visits = <<>>
        /\ out = <<>>
        /\ pc # "done"

(***************************************************************************)
(* C9: an accepted file that can be read and whose bytes are not valid     *)
(* UTF-8 gets its complete block: its content is written, lossily decoded, *)
(* and it is never skipped or reported as a read error.                    *)
(***************************************************************************)
C9_InvalidUtf8StillEmitted ==
    \A k \in DOMAIN log :
        (log[k].ev = "open_r" /\ DecodeUtf8(BytesRead(log[k]), "strict").raised) =>
            /\ log[k + 1].ev = "content"
            /\ log[k].path \notin Range(stderr)

\* What the log holds about the k-th discovered file: the events after its
\* discovery, up to the next discovery or the end of the walk.
LifecycleOf(k) ==
    LET starts == {j \in DOMAIN log : log[j].ev = "discovered"}
        from == CHOOSE j \in starts : Cardinality({i \in starts : i <= j}) = k
        stops == {j \in (from + 1)..Len(log) :
                     log[j].ev \in {"discovered", "root", "close_w"}}
        to == IF stops = {} THEN Len(log)
              ELSE (CHOOSE j \in stops : \A i \in stops : j <= i) - 1
    IN  [i \in 1..(to - from) |-> log[from + i].ev]

FinalLifecycles ==
    LET head == IF no_header THEN <<"accepted">> ELSE <<"accepted", "header">>
    IN  {<<"not_included">>, <<"excluded">>,
         head \o <<"open_r", "content">>,
         head \o <<"open_r", "error">>,
         head \o <<"error">>}

(***************************************************************************)
(* C10: every discovered file follows exactly one of the lifecycles        *)
(* discovered -> filtered-out, discovered -> header -> content-written,    *)
(* discovered -> header -> content-skipped-on-error; a file reaches its    *)
(* final state before the next is discovered, and every discovered file    *)
(* reaches one of the three final states: when the run has ended, none is  *)
(* left short of it.                                                       *)
(***************************************************************************)
C10_Lifecycle ==
    \A k \in DOMAIN Visits :
        \/ LifecycleOf(k) \in FinalLifecycles
        \/ /\ k = Len(Visits)
           /\ pc \in {"filter", "header", "read"}
           /\ \E l \in FinalLifecycles : IsPrefix(LifecycleOf(k), l)

====
